---- MODULE Spec2Model ----
(***************************************************************************)
(* A model of src/bot.js: the Telegram front end (message and callback     *)
(* handlers, the per-actor session records, the admin stages) and the job  *)
(* processUserRequest with its suspension points.                          *)
(*                                                                         *)
(* A message text is a sequence of one-character strings, so that          *)
(* parseInt, trim and split are computed as JavaScript computes them.      *)
(***************************************************************************)
EXTENDS Integers, Sequences, FiniteSets, TLC

\* ------------------------------------------------------------------ bounds

\* Identities requested by the granted jobs of one run of the model: the cap on
\* stats.totalWalletRequests (a job requests at least one).
MaxUnits == 2
\* Calendar days: today ranges over 1..MaxDay.
MaxDay == 2

\* ------------------------------------------------------------ program constants

DEFAULT_MAX_LIMIT == 100
\* The turns of completeDailyChats: for (let i = 0; i < 5; i++).
MaxChats == 5
\* referralCode.length !== 6
RefLen == 6
\* The privileged chat id (read from the command line).
ADMIN_ID == 1

\* Chat ids that send messages and callbacks.
Actors == {1, 2}

\* ------------------------------------------------------------------ texts

Digits == {"0", "1", "2", "3", "4", "5", "6", "7", "8", "9"}

DigitVal(c) ==
  CASE c = "0" -> 0 [] c = "1" -> 1 [] c = "2" -> 2 [] c = "3" -> 3
    [] c = "4" -> 4 [] c = "5" -> 5 [] c = "6" -> 6 [] c = "7" -> 7
    [] c = "8" -> 8 [] c = "9" -> 9

IsSpace(c) == c = " "

RECURSIVE TrimStart(_)
TrimStart(s) ==
  IF s # <<>> /\ IsSpace(Head(s)) THEN TrimStart(Tail(s)) ELSE s

RECURSIVE TrimEnd(_)
TrimEnd(s) ==
  IF s # <<>> /\ IsSpace(s[Len(s)]) THEN TrimEnd(SubSeq(s, 1, Len(s) - 1)) ELSE s

\* String.prototype.trim
trim(s) == TrimEnd(TrimStart(s))

\* The result of parseInt: a number, or NaN.
NaN == [nan |-> TRUE, val |-> 0]
Num(n) == [nan |-> FALSE, val |-> n]
isNaN(r) == r.nan

RECURSIVE ParseDigits(_, _, _)
ParseDigits(s, acc, seen) ==
  IF s # <<>> /\ Head(s) \in Digits
    THEN ParseDigits(Tail(s), acc * 10 + DigitVal(Head(s)), TRUE)
    ELSE IF seen THEN Num(acc) ELSE NaN

\* parseInt(text): leading white space is skipped, an optional sign, then the
\* longest run of decimal digits; what follows the digits is ignored.
parseInt(s) ==
  LET t == TrimStart(s) IN
    IF t # <<>> /\ Head(t) = "-"
      THEN LET r == ParseDigits(Tail(t), 0, FALSE) IN
             IF r.nan THEN NaN ELSE Num(0 - r.val)
      ELSE IF t # <<>> /\ Head(t) = "+"
        THEN ParseDigits(Tail(t), 0, FALSE)
        ELSE ParseDigits(t, 0, FALSE)

RECURSIVE SplitAcc(_, _)
SplitAcc(s, cur) ==
  IF s = <<>> THEN <<cur>>
  ELSE IF Head(s) = "," THEN <<cur>> \o SplitAcc(Tail(s), <<>>)
  ELSE SplitAcc(Tail(s), Append(cur, Head(s)))

\* text.split(",")
split(s) == SplitAcc(s, <<>>)

\* text.split(",").map(t => t.trim()).filter(t => t.length > 0)
ParseTopics(s) ==
  LET parts == split(s) IN
    SelectSeq([k \in DOMAIN parts |-> trim(parts[k])], LAMBDA t : Len(t) > 0)

T_start == <<"/", "s", "t", "a", "r", "t">>
T_admin == <<"/", "a", "d", "m", "i", "n">>
T_0 == <<"0">>
T_1 == <<"1">>
T_2 == <<"2">>
T_2x == <<"2", "x">>
T_abc == <<"a", "b", "c">>
T_ref == <<"A", "B", "C", "D", "E", "F">>
T_refsp == <<" ", "A", "B", "C", "D", "E", "F", " ">>
T_t1 == <<"t", "1">>
T_t1t2 == <<"t", "1", ",", " ", "t", "2">>
T_commas == <<",", " ", ",">>
\* The texts actors send.
Texts ==
  {T_start, T_admin, T_0, T_1, T_2, T_2x, T_abc, T_ref, T_refsp, T_t1, T_t1t2,
   T_commas}

\* The texts the admin sends as configuration values.
ConfigTexts == {T_abc}

DEFAULT_WELCOME == <<"w">>

\* ------------------------------------------------------------------ state

VARIABLES
  today,            \* new Date().toISOString().slice(0, 10), as a day number
  blockedUsers,     \* the ids of blocked.json (no id is pushed twice)
  usageData,        \* chatId -> { date, count }; date 0: no record
  stats,            \* { totalUsers, totalWalletRequests }
  usersList,        \* the array of users.json
  welcomeMessage,
  suffix,
  globalCaption,
  maxLimit,
  pendingRequests,  \* the ids whose entry is { cancel: true }
  adminState,       \* adminState[ADMIN_ID].stage; "none": no entry
  userState,        \* chatId -> { stage, count, referralCode }; stage "none": no entry
  jobs,             \* the runs of processUserRequest, in launch order
  walletFiles,      \* chatId -> the array of wallet_<chatId>.json
  sent              \* the messages the last step sent

vars ==
  <<today, blockedUsers, usageData, stats, usersList, welcomeMessage, suffix,
    globalCaption, maxLimit, pendingRequests, adminState, userState, jobs,
    walletFiles, sent>>

configVars == <<welcomeMessage, suffix, globalCaption, maxLimit>>
adminVars == <<blockedUsers, pendingRequests, adminState>>
ledgerVars == <<usageData, stats, usersList>>
jobVars == <<jobs, walletFiles>>

NoRecord == [date |-> 0, count |-> 0]
NoSession == [stage |-> "none", count |-> 0, referralCode |-> <<>>]
Note(to, kind, n) == [to |-> to, kind |-> kind, n |-> n]

\* The ceiling loaded at start: loadJSON(MAXLIMIT_FILE, DEFAULT_MAX_LIMIT), the
\* default or a value an earlier run of the admin panel saved.
InitLimits == {1, 2, DEFAULT_MAX_LIMIT}

Init ==
  /\ today = 1
  /\ blockedUsers = {}
  /\ usageData = [a \in Actors |-> NoRecord]
  /\ stats = [totalUsers |-> 0, totalWalletRequests |-> 0]
  /\ usersList = <<>>
  /\ welcomeMessage = DEFAULT_WELCOME
  /\ suffix = <<>>
  /\ globalCaption = <<>>
  /\ maxLimit \in InitLimits
  /\ pendingRequests = {}
  /\ adminState = "none"
  /\ userState = [a \in Actors |-> NoSession]
  /\ jobs = <<>>
  /\ walletFiles = [a \in Actors |-> <<>>]
  /\ sent = <<>>

includes(arr, x) == \E k \in DOMAIN arr : arr[k] = x

\* ------------------------------------------------------- message dispatch

\* if (blockedUsers.includes(chatId))
IsBlocked(a) == a \in blockedUsers
\* chatId === ADMIN_ID && text === '/admin'
IsAdminCommand(a, text) == a = ADMIN_ID /\ text = T_admin
\* chatId === ADMIN_ID && adminState[chatId] && adminState[chatId].stage !== 'idle'
InAdminStage(a) == a = ADMIN_ID /\ adminState \notin {"none", "idle"}
\* A dispatch without the test of the block set.
ReachesSession_open(a, text) == ~IsAdminCommand(a, text) /\ ~InAdminStage(a)

\* The message reaches the session part of the handler (line 486 on).
ReachesSession(a, text) ==
  ~IsBlocked(a) /\ ~IsAdminCommand(a, text) /\ ~InAdminStage(a)

\* ------------------------------------------------------------- quota ledger

\* Mutant: the record is reset on every request.
CurrentRecord_reset(rec, day) == [date |-> day, count |-> 0]

\* if (!usageData[chatId] || usageData[chatId].date !== today)
\*   usageData[chatId] = { date: today, count: 0 };
CurrentRecord(rec, day) ==
  IF rec.date = 0 \/ rec.date # day THEN [date |-> day, count |-> 0] ELSE rec

\* Mutant: a request that would reach the ceiling exactly is turned down.
LimitReached_ge(rec, count, limit) == rec.count + count >= limit

\* if (usageData[chatId].count + count > maxLimit)
LimitReached(rec, count, limit) == rec.count + count > limit

\* ------------------------------------------------------------------ jobs

NoWallet ==
  [id |-> <<0, 0>>, registered |-> FALSE, chats |-> 0, jwt |-> FALSE,
   topics |-> <<>>, usedTopics |-> <<>>]

\* A run of processUserRequest that has passed the quota check, suspended at
\* the delay that opens its first iteration.
NewJob(a, count, referralCode, topics) ==
  [chatId |-> a, count |-> count, referralCode |-> referralCode,
   topics |-> topics, i |-> 0, pc |-> "delay", createdWallets |-> <<>>,
   wallet |-> NoWallet, turn |-> 0, topic |-> <<>>, reason |-> "none",
   summary |-> -1]

\* ----------------------------------------------------------- session stages

\* A /start that counts the actor at every visit.
MsgStart_recount(a, text) ==
  /\ ReachesSession(a, text)
  /\ text = T_start
  /\ usersList' = Append(usersList, a)
  /\ stats' = [stats EXCEPT !.totalUsers = @ + 1]
  /\ userState' =
       [userState EXCEPT ![a] = [NoSession EXCEPT !.stage = "awaiting_count"]]
  /\ sent' = <<Note(a, "welcome", 0), Note(a, "prompt_count", maxLimit)>>
  /\ UNCHANGED <<today, usageData, configVars, adminVars, jobVars>>

\* handleStart(chatId), reached by text === '/start'.
MsgStart(a, text) ==
  /\ ReachesSession(a, text)
  /\ text = T_start
  /\ IF includes(usersList, a)
       THEN UNCHANGED <<usersList, stats>>
       ELSE /\ usersList' = Append(usersList, a)
            /\ stats' = [stats EXCEPT !.totalUsers = @ + 1]
  /\ userState' =
       [userState EXCEPT ![a] = [NoSession EXCEPT !.stage = "awaiting_count"]]
  /\ sent' = <<Note(a, "welcome", 0), Note(a, "prompt_count", maxLimit)>>
  /\ UNCHANGED <<today, usageData, configVars, adminVars, jobVars>>

\* A handler that opens a session for an actor that has none.
MsgIgnored_open(a, text) ==
  /\ ReachesSession(a, text)
  /\ text # T_start
  /\ userState[a].stage = "none"
  /\ userState' =
       [userState EXCEPT ![a] = [NoSession EXCEPT !.stage = "awaiting_count"]]
  /\ sent' = <<>>
  /\ UNCHANGED <<today, ledgerVars, configVars, adminVars, jobVars>>

\* if (!userState[chatId]) return;
MsgIgnored(a, text) ==
  /\ ReachesSession(a, text)
  /\ text # T_start
  /\ userState[a].stage = "none"
  /\ sent' = <<>>
  /\ UNCHANGED <<today, ledgerVars, configVars, adminVars, userState, jobVars>>

\* The test without its comparison with the ceiling.
ValidCount_noCeiling(c, limit) == ~isNaN(c) /\ ~(c.val <= 0)

\* isNaN(count) || count <= 0 || count > maxLimit, negated
ValidCount(c, limit) == ~isNaN(c) /\ ~(c.val <= 0) /\ ~(c.val > limit)

\* state.stage === 'awaiting_count'
MsgCount(a, text) ==
  /\ ReachesSession(a, text)
  /\ text # T_start
  /\ userState[a].stage = "awaiting_count"
  /\ LET count == parseInt(text) IN
       IF ValidCount(count, maxLimit)
         THEN /\ userState' =
                   [userState EXCEPT ![a].count = count.val,
                                     ![a].stage = "awaiting_ref"]
              /\ sent' = <<Note(a, "prompt_ref", 0)>>
         ELSE /\ UNCHANGED userState
              /\ sent' = <<Note(a, "invalid_count", maxLimit)>>
  /\ UNCHANGED <<today, ledgerVars, configVars, adminVars, jobVars>>

\* A test that lets every code through.
ValidRef_any(refCode) == TRUE

\* refCode.length !== 6, negated
ValidRef(refCode) == Len(refCode) = RefLen

\* state.stage === 'awaiting_ref'
MsgRef(a, text) ==
  /\ ReachesSession(a, text)
  /\ text # T_start
  /\ userState[a].stage = "awaiting_ref"
  /\ LET refCode == trim(text) IN
       IF ValidRef(refCode)
         THEN /\ userState' =
                   [userState EXCEPT ![a].referralCode = refCode,
                                     ![a].stage = "awaiting_topics"]
              /\ sent' = <<Note(a, "prompt_topics", 0)>>
         ELSE /\ UNCHANGED userState
              /\ sent' = <<Note(a, "invalid_ref", 0)>>
  /\ UNCHANGED <<today, ledgerVars, configVars, adminVars, jobVars>>

\* A launch that reserves the whole batch on the quota record.
StartRequest_reserved(a, count, referralCode, topics) ==
  LET rec == CurrentRecord(usageData[a], today) IN
    IF LimitReached(rec, count, maxLimit)
      THEN /\ usageData' = [usageData EXCEPT ![a] = rec]
           /\ sent' = <<Note(a, "starting", count),
                        Note(a, "limit_reached", rec.count)>>
           /\ UNCHANGED <<stats, jobs>>
      ELSE /\ usageData' = [usageData EXCEPT
                              ![a] = [rec EXCEPT !.count = @ + count]]
           /\ stats' = [stats EXCEPT !.totalWalletRequests = @ + count]
           /\ jobs' = Append(jobs, NewJob(a, count, referralCode, topics))
           /\ sent' = <<Note(a, "starting", count)>>

\* processUserRequest up to its first suspension: the quota check, and on a
\* grant the lifetime counter and the entry of the loop.
StartRequest(a, count, referralCode, topics) ==
  LET rec == CurrentRecord(usageData[a], today) IN
    /\ usageData' = [usageData EXCEPT ![a] = rec]
    /\ IF LimitReached(rec, count, maxLimit)
         THEN /\ sent' = <<Note(a, "starting", count),
                           Note(a, "limit_reached", rec.count)>>
              /\ UNCHANGED <<stats, jobs>>
         ELSE /\ stats' = [stats EXCEPT !.totalWalletRequests = @ + count]
              /\ jobs' = Append(jobs, NewJob(a, count, referralCode, topics))
              /\ sent' = <<Note(a, "starting", count)>>

\* state.stage === 'awaiting_topics': on a non-empty list the handler calls
\* processUserRequest, which runs to its first await, and deletes the record.
MsgTopics(a, text) ==
  /\ ReachesSession(a, text)
  /\ text # T_start
  /\ userState[a].stage = "awaiting_topics"
  /\ LET topics == ParseTopics(text) IN
       IF Len(topics) = 0
         THEN /\ sent' = <<Note(a, "invalid_topics", 0)>>
              /\ UNCHANGED <<userState, usageData, stats, jobs>>
         ELSE /\ StartRequest(a, userState[a].count, userState[a].referralCode,
                              topics)
              /\ userState' = [userState EXCEPT ![a] = NoSession]
  /\ UNCHANGED <<today, usersList, configVars, adminVars, walletFiles>>

\* if (blockedUsers.includes(chatId)) { send "You are blocked"; return; }
MsgBlocked(a, text) ==
  /\ IsBlocked(a)
  /\ sent' = <<Note(a, "blocked", 0)>>
  /\ UNCHANGED <<today, ledgerVars, configVars, adminVars, userState, jobVars>>

\* ------------------------------------------------------------ admin stages

\* chatId === ADMIN_ID && text === '/admin'
MsgAdminMenu(a, text) ==
  /\ ~IsBlocked(a)
  /\ IsAdminCommand(a, text)
  /\ adminState' = "idle"
  /\ sent' = <<Note(a, "admin_menu", 0)>>
  /\ UNCHANGED <<today, ledgerVars, configVars, blockedUsers, pendingRequests,
                 userState, jobVars>>

\* An admin stage that takes the text before the block check is made.
AdminInput_beforeBlock(a, text, stage) ==
  ~IsAdminCommand(a, text) /\ InAdminStage(a) /\ adminState = stage

\* The admin's message is taken by the switch on adminState[chatId].stage.
AdminInput(a, text, stage) ==
  ~IsBlocked(a) /\ ~IsAdminCommand(a, text) /\ InAdminStage(a) /\ adminState = stage

\* case 'block'
AdminBlock(a, text) ==
  /\ AdminInput(a, text, "block")
  /\ LET targetId == parseInt(trim(text)) IN
       IF isNaN(targetId)
         THEN /\ sent' = <<Note(a, "invalid_id", 0)>>
              /\ UNCHANGED <<blockedUsers, adminState>>
         ELSE /\ blockedUsers' = blockedUsers \cup {targetId.val}
              /\ sent' = <<Note(a, IF targetId.val \in blockedUsers
                                     THEN "already_blocked" ELSE "blocked_ok",
                                targetId.val)>>
              /\ adminState' = "idle"
  /\ UNCHANGED <<today, ledgerVars, configVars, pendingRequests, userState,
                 jobVars>>

\* case 'unblock'
AdminUnblock(a, text) ==
  /\ AdminInput(a, text, "unblock")
  /\ LET targetId == parseInt(trim(text)) IN
       IF isNaN(targetId)
         THEN /\ sent' = <<Note(a, "invalid_id", 0)>>
              /\ UNCHANGED <<blockedUsers, adminState>>
         ELSE /\ blockedUsers' = blockedUsers \ {targetId.val}
              /\ sent' = <<Note(a, IF targetId.val \in blockedUsers
                                     THEN "unblocked_ok" ELSE "not_blocked",
                                targetId.val)>>
              /\ adminState' = "idle"
  /\ UNCHANGED <<today, ledgerVars, configVars, pendingRequests, userState,
                 jobVars>>

\* case 'cancel': pendingRequests[targetId] = { cancel: true }
AdminCancel(a, text) ==
  /\ AdminInput(a, text, "cancel")
  /\ LET targetId == parseInt(trim(text)) IN
       IF isNaN(targetId)
         THEN /\ sent' = <<Note(a, "invalid_id", 0)>>
              /\ UNCHANGED <<pendingRequests, adminState>>
         ELSE /\ pendingRequests' = pendingRequests \cup {targetId.val}
              /\ sent' = <<Note(a, "cancel_ok", targetId.val),
                           Note(targetId.val, "cancel_notice", 0)>>
              /\ adminState' = "idle"
  /\ UNCHANGED <<today, ledgerVars, configVars, blockedUsers, userState,
                 jobVars>>

\* case 'change_welcome'
AdminChangeWelcome(a, text) ==
  /\ AdminInput(a, text, "change_welcome")
  /\ welcomeMessage' = text
  /\ adminState' = "idle"
  /\ sent' = <<Note(a, "welcome_updated", 0)>>
  /\ UNCHANGED <<today, ledgerVars, suffix, globalCaption, maxLimit,
                 blockedUsers, pendingRequests, userState, jobVars>>

\* case 'set_suffix'
AdminSetSuffix(a, text) ==
  /\ AdminInput(a, text, "set_suffix")
  /\ suffix' = text
  /\ adminState' = "idle"
  /\ sent' = <<Note(a, "suffix_updated", 0)>>
  /\ UNCHANGED <<today, ledgerVars, welcomeMessage, globalCaption, maxLimit,
                 blockedUsers, pendingRequests, userState, jobVars>>

\* isNaN(newLimit) || newLimit <= 0, negated
ValidLimit(newLimit) == ~isNaN(newLimit) /\ ~(newLimit.val <= 0)

\* case 'change_max_limit'
AdminChangeMaxLimit(a, text) ==
  /\ AdminInput(a, text, "change_max_limit")
  /\ LET newLimit == parseInt(trim(text)) IN
       IF ValidLimit(newLimit)
         THEN /\ maxLimit' = newLimit.val
              /\ sent' = <<Note(a, "limit_updated", newLimit.val)>>
              /\ adminState' = "idle"
         ELSE /\ sent' = <<Note(a, "invalid_limit", 0)>>
              /\ UNCHANGED <<maxLimit, adminState>>
  /\ UNCHANGED <<today, ledgerVars, welcomeMessage, suffix, globalCaption,
                 blockedUsers, pendingRequests, userState, jobVars>>

\* case 'set_global_caption'
AdminSetGlobalCaption(a, text) ==
  /\ AdminInput(a, text, "set_global_caption")
  /\ globalCaption' = text
  /\ adminState' = "idle"
  /\ sent' = <<Note(a, "caption_updated", 0)>>
  /\ UNCHANGED <<today, ledgerVars, welcomeMessage, suffix, maxLimit,
                 blockedUsers, pendingRequests, userState, jobVars>>

\* case 'broadcast': the text goes to every id of usersList, then the admin
\* is told so.
AdminBroadcast(a, text) ==
  /\ AdminInput(a, text, "broadcast")
  /\ adminState' = "idle"
  /\ sent' = [k \in DOMAIN usersList |-> Note(usersList[k], "broadcast", 0)]
               \o <<Note(a, "broadcast_sent", 0)>>
  /\ UNCHANGED <<today, ledgerVars, configVars, blockedUsers, pendingRequests,
                 userState, jobVars>>

\* ---------------------------------------------------------------- callbacks

\* The stage each button of getAdminMenu sets; "" for a button that sets none.
StageOf(action) ==
  CASE action = "block_user" -> "block"
    [] action = "unblock_user" -> "unblock"
    [] action = "cancel_request" -> "cancel"
    [] action \in {"change_welcome", "set_suffix", "change_max_limit",
                   "set_global_caption", "broadcast"} -> action
    [] OTHER -> ""

\* The callback data of the menu's buttons.
Buttons ==
  {"block_user", "unblock_user", "cancel_request", "show_stats",
   "change_welcome", "set_suffix", "remove_suffix", "change_max_limit",
   "set_global_caption", "broadcast"}

\* A callback handler that serves the buttons of any actor.
CallbackUnauthorized_served(a, action) ==
  /\ a # ADMIN_ID
  /\ adminState' = IF StageOf(action) # "" THEN StageOf(action) ELSE adminState
  /\ sent' = <<Note(a, "not_authorized", 0)>>
  /\ UNCHANGED <<today, ledgerVars, configVars, blockedUsers, pendingRequests,
                 userState, jobVars>>

\* if (adminChatId !== ADMIN_ID) { answer "You are not authorized"; return; }
CallbackUnauthorized(a, action) ==
  /\ a # ADMIN_ID
  /\ sent' = <<Note(a, "not_authorized", 0)>>
  /\ UNCHANGED <<today, ledgerVars, configVars, adminVars, userState, jobVars>>

\* A button that opens a stage: adminState[adminChatId] = { stage }.
CallbackStage(a, action) ==
  /\ a = ADMIN_ID
  /\ StageOf(action) # ""
  /\ adminState' = StageOf(action)
  /\ sent' = <<Note(a, "ask_" \o StageOf(action), 0)>>
  /\ UNCHANGED <<today, ledgerVars, configVars, blockedUsers, pendingRequests,
                 userState, jobVars>>

\* case 'show_stats', and the default case (the Remove Suffix button).
CallbackOther(a, action) ==
  /\ a = ADMIN_ID
  /\ StageOf(action) = ""
  /\ sent' = IF action = "show_stats"
               THEN <<Note(a, "stats", stats.totalWalletRequests)>>
               ELSE <<>>
  /\ UNCHANGED <<today, ledgerVars, configVars, adminVars, userState, jobVars>>

\* ------------------------------------------------------- the unit of a job

\* How a run of registerWallet ends: the call that throws, a connect response
\* without a token, a profile re-query whose code is not 200, or success.
RegOutcomes ==
  {"lookup_error", "connect_error", "no_token", "bind_error", "requery_error",
   "not_200", "ok"}

\* wallet.jwt = connectResponse.data.data.token is reached
TokenStored(outcome) ==
  outcome \in {"bind_error", "requery_error", "not_200", "ok"}

\* A wallet that counts as registered once it holds a token.
Registered_token(outcome) == TokenStored(outcome)

\* registerWallet returns true
Registered(outcome) == outcome = "ok"

\* The wallet registerWallet leaves behind.
registerWallet(wallet, outcome) ==
  [wallet EXCEPT !.jwt = TokenStored(outcome),
                 !.registered = Registered(outcome)]

\* What the four calls of registerWallet can answer: each call throws or
\* returns; the connect response carries data.data.token or not, the second
\* user_info response carries data.code 200 or another code.
Handshakes ==
  [lookup : {"throws", "returns"},
   connect : {"throws", "no_data", "no_token", "token"},
   bind : {"throws", "returns"},
   requery : {"throws", "code_200", "code_other"}]

\* The way registerWallet ends on these answers: the calls are made in order,
\* and a throw or a missing token ends the try block.
Outcome(h) ==
  IF h.lookup = "throws" THEN "lookup_error"
  ELSE IF h.connect = "throws" THEN "connect_error"
  ELSE IF h.connect \in {"no_data", "no_token"} THEN "no_token"
  ELSE IF h.bind = "throws" THEN "bind_error"
  ELSE IF h.requery = "throws" THEN "requery_error"
  ELSE IF h.requery = "code_200" THEN "ok"
  ELSE "not_200"

\* createWallet() alone: the wallet as the function returns it.
createWallet_bare(j, i, topics) == [NoWallet EXCEPT !.id = <<j, i>>]

\* createWallet(), with wallet.topics = topics; the address is fresh, and is
\* modelled by the job and the iteration that made it.
createWallet(j, i, topics) ==
  [NoWallet EXCEPT !.id = <<j, i>>, !.topics = topics]

\* wallet.topics.filter(t => !wallet.usedTopics.includes(t))
available(wallet) ==
  SelectSeq(wallet.topics, LAMBDA t : ~includes(wallet.usedTopics, t))

\* getRandomTopic(wallet): every <<topic, usedTopics>> a call can end with.
getRandomTopic(wallet) ==
  IF Len(wallet.topics) = 0
    THEN {<<"Default topic", wallet.usedTopics>>}
    ELSE IF Len(available(wallet)) = 0
      THEN {<<wallet.topics[k], <<>>>> : k \in DOMAIN wallet.topics}
      ELSE {<<available(wallet)[k], Append(wallet.usedTopics, available(wallet)[k])>> :
              k \in DOMAIN available(wallet)}

\* performChat up to its request: the topic is picked, the used list updated,
\* and the topic goes out as the query.
ChatRequested(wallet) ==
  {[wallet |-> [wallet EXCEPT !.usedTopics = p[2]], topic |-> p[1]] :
     p \in getRandomTopic(wallet)}

\* A checkpoint that reads no flag.
CancelRequested_never(a) == FALSE

\* if (pendingRequests[chatId] && pendingRequests[chatId].cancel)
CancelRequested(a) == a \in pendingRequests

\* A persist that goes back to the head of the loop without the notification
\* and without the charge.
Persist_uncharged(j, wallet) ==
  /\ jobs' = [jobs EXCEPT ![j].createdWallets = Append(@, wallet),
                          ![j].wallet = NoWallet,
                          ![j].turn = 0,
                          ![j].topic = <<>>,
                          ![j].i = @ + 1,
                          ![j].pc = "delay"]
  /\ walletFiles' = [walletFiles EXCEPT ![jobs[j].chatId] = Append(@, wallet)]
  /\ sent' = <<>>

\* A unit that is pushed and announced without the write of the archive.
Persist_noArchive(j, wallet) ==
  /\ jobs' = [jobs EXCEPT ![j].createdWallets = Append(@, wallet),
                          ![j].wallet = NoWallet,
                          ![j].turn = 0,
                          ![j].topic = <<>>,
                          ![j].pc = "notify"]
  /\ walletFiles' = walletFiles
  /\ sent' = <<Note(jobs[j].chatId, "progress", jobs[j].i + 1)>>

\* createdWallets.push(wallet); the read, push and write of wallet_<chatId>.json;
\* sendMessageWithHeader is called and awaited.
Persist(j, wallet) ==
  /\ jobs' = [jobs EXCEPT ![j].createdWallets = Append(@, wallet),
                          ![j].wallet = NoWallet,
                          ![j].turn = 0,
                          ![j].topic = <<>>,
                          ![j].pc = "notify"]
  /\ walletFiles' = [walletFiles EXCEPT ![jobs[j].chatId] = Append(@, wallet)]
  /\ sent' = <<Note(jobs[j].chatId, "progress", jobs[j].i + 1)>>

\* A checkpoint that also stops the job of a blocked actor.
JobCheckpoint_blockedStops(j) ==
  /\ j \in DOMAIN jobs
  /\ jobs[j].pc = "delay"
  /\ IF CancelRequested(jobs[j].chatId) \/ IsBlocked(jobs[j].chatId)
       THEN /\ jobs' = [jobs EXCEPT ![j].pc = "exit", ![j].reason = "cancelled"]
            /\ sent' = <<Note(jobs[j].chatId, "job_cancelled", 0)>>
       ELSE IF ~ValidRef(jobs[j].referralCode)
         THEN /\ jobs' = [jobs EXCEPT ![j].pc = "exit", ![j].reason = "bad_referral"]
              /\ sent' = <<Note(jobs[j].chatId, "bad_referral", 0)>>
         ELSE /\ jobs' = [jobs EXCEPT
                   ![j].wallet = createWallet(j, jobs[j].i + 1, jobs[j].topics),
                   ![j].pc = "register"]
              /\ sent' = <<>>
  /\ UNCHANGED <<today, ledgerVars, configVars, adminVars, userState,
                 walletFiles>>

\* A checkpoint that does not look at the referral code.
JobCheckpoint_anyRef(j) ==
  /\ j \in DOMAIN jobs
  /\ jobs[j].pc = "delay"
  /\ IF CancelRequested(jobs[j].chatId)
       THEN /\ jobs' = [jobs EXCEPT ![j].pc = "exit", ![j].reason = "cancelled"]
            /\ sent' = <<Note(jobs[j].chatId, "job_cancelled", 0)>>
       ELSE /\ jobs' = [jobs EXCEPT
                 ![j].wallet = createWallet(j, jobs[j].i + 1, jobs[j].topics),
                 ![j].pc = "register"]
            /\ sent' = <<>>
  /\ UNCHANGED <<today, ledgerVars, configVars, adminVars, userState,
                 walletFiles>>

\* The delay that opens an iteration is over: the cancel checkpoint, then
\* createWallet and the check of the referral code, then registerWallet is
\* called and awaited.
JobCheckpoint(j) ==
  /\ j \in DOMAIN jobs
  /\ jobs[j].pc = "delay"
  /\ IF CancelRequested(jobs[j].chatId)
       THEN /\ jobs' = [jobs EXCEPT ![j].pc = "exit", ![j].reason = "cancelled"]
            /\ sent' = <<Note(jobs[j].chatId, "job_cancelled", 0)>>
       ELSE IF ~ValidRef(jobs[j].referralCode)
         THEN /\ jobs' = [jobs EXCEPT ![j].pc = "exit", ![j].reason = "bad_referral"]
              /\ sent' = <<Note(jobs[j].chatId, "bad_referral", 0)>>
         ELSE /\ jobs' = [jobs EXCEPT
                   ![j].wallet = createWallet(j, jobs[j].i + 1, jobs[j].topics),
                   ![j].pc = "register"]
              /\ sent' = <<>>
  /\ UNCHANGED <<today, ledgerVars, configVars, adminVars, userState,
                 walletFiles>>

\* registerWallet returns. On true completeDailyChats starts and the first
\* performChat sends its request; on false the unit is persisted.
JobRegister(j, outcome) ==
  /\ j \in DOMAIN jobs
  /\ jobs[j].pc = "register"
  /\ LET wallet == registerWallet(jobs[j].wallet, outcome) IN
       IF Registered(outcome)
         THEN /\ \E r \in ChatRequested(wallet) :
                   jobs' = [jobs EXCEPT ![j].wallet = r.wallet,
                                        ![j].topic = r.topic,
                                        ![j].turn = 0,
                                        ![j].pc = "chat"]
              /\ sent' = <<>>
              /\ UNCHANGED walletFiles
         ELSE Persist(j, wallet)
  /\ UNCHANGED <<today, ledgerVars, configVars, adminVars, userState>>

\* A conversation that counts every turn and stops only after the fifth.
JobChat_everyTurn(j, ok) ==
  /\ j \in DOMAIN jobs
  /\ jobs[j].pc = "chat"
  /\ LET wallet == [jobs[j].wallet EXCEPT !.chats = @ + 1] IN
       IF jobs[j].turn + 1 < MaxChats
         THEN /\ \E r \in ChatRequested(wallet) :
                   jobs' = [jobs EXCEPT ![j].wallet = r.wallet,
                                        ![j].topic = r.topic,
                                        ![j].turn = @ + 1]
              /\ sent' = <<>>
              /\ UNCHANGED walletFiles
         ELSE Persist(j, wallet)
  /\ UNCHANGED <<today, ledgerVars, configVars, adminVars, userState>>

\* A conversation request returns (ok: with status 200). On success
\* wallet.chats++ and, after the pacing delay, the next turn's request or the
\* end of the five turns; on failure the loop breaks. The unit is persisted
\* when completeDailyChats returns.
JobChat(j, ok) ==
  /\ j \in DOMAIN jobs
  /\ jobs[j].pc = "chat"
  /\ LET wallet == [jobs[j].wallet EXCEPT !.chats = IF ok THEN @ + 1 ELSE @] IN
       IF ok /\ jobs[j].turn + 1 < MaxChats
         THEN /\ \E r \in ChatRequested(wallet) :
                   jobs' = [jobs EXCEPT ![j].wallet = r.wallet,
                                        ![j].topic = r.topic,
                                        ![j].turn = @ + 1]
              /\ sent' = <<>>
              /\ UNCHANGED walletFiles
         ELSE Persist(j, wallet)
  /\ UNCHANGED <<today, ledgerVars, configVars, adminVars, userState>>

\* A charge that is booked on the quota record of every actor.
JobCharge_everyone(j) ==
  /\ j \in DOMAIN jobs
  /\ jobs[j].pc = "notify"
  /\ usageData' = [a \in Actors |->
                     [usageData[a] EXCEPT !.count = @ + 1]]
  /\ IF jobs[j].i + 1 < jobs[j].count
       THEN /\ jobs' = [jobs EXCEPT ![j].i = @ + 1, ![j].pc = "delay"]
            /\ sent' = <<>>
       ELSE /\ jobs' = [jobs EXCEPT ![j].i = @ + 1, ![j].pc = "done",
                                    ![j].reason = "complete",
                                    ![j].summary = Len(jobs[j].createdWallets)]
            /\ sent' = <<Note(jobs[j].chatId, "summary",
                              Len(jobs[j].createdWallets))>>
  /\ UNCHANGED <<today, stats, usersList, configVars, adminVars, userState,
                 walletFiles>>

\* A charge that starts the next unit at once, with no delay and no
\* cancellation test between two iterations.
JobCharge_noCheckpoint(j) ==
  /\ j \in DOMAIN jobs
  /\ jobs[j].pc = "notify"
  /\ usageData' = [usageData EXCEPT ![jobs[j].chatId].count = @ + 1]
  /\ IF jobs[j].i + 1 < jobs[j].count
       THEN /\ jobs' = [jobs EXCEPT
                 ![j].i = @ + 1,
                 ![j].wallet = createWallet(j, jobs[j].i + 2, jobs[j].topics),
                 ![j].pc = "register"]
            /\ sent' = <<>>
       ELSE /\ jobs' = [jobs EXCEPT ![j].i = @ + 1, ![j].pc = "done",
                                    ![j].reason = "complete",
                                    ![j].summary = Len(jobs[j].createdWallets)]
            /\ sent' = <<Note(jobs[j].chatId, "summary",
                              Len(jobs[j].createdWallets))>>
  /\ UNCHANGED <<today, stats, usersList, configVars, adminVars, userState,
                 walletFiles>>

\* sendMessageWithHeader has returned: usageData[chatId].count++, i++, and the
\* loop test; after the last iteration the summary is sent.
JobCharge(j) ==
  /\ j \in DOMAIN jobs
  /\ jobs[j].pc = "notify"
  /\ usageData' = [usageData EXCEPT ![jobs[j].chatId].count = @ + 1]
  /\ IF jobs[j].i + 1 < jobs[j].count
       THEN /\ jobs' = [jobs EXCEPT ![j].i = @ + 1, ![j].pc = "delay"]
            /\ sent' = <<>>
       ELSE /\ jobs' = [jobs EXCEPT ![j].i = @ + 1, ![j].pc = "done",
                                    ![j].reason = "complete",
                                    ![j].summary = Len(jobs[j].createdWallets)]
            /\ sent' = <<Note(jobs[j].chatId, "summary",
                              Len(jobs[j].createdWallets))>>
  /\ UNCHANGED <<today, stats, usersList, configVars, adminVars, userState,
                 walletFiles>>

\* An exit that withdraws the cancel flag of the actor once the job has
\* honoured it.
JobExit_clearsFlag(j, ok) ==
  /\ j \in DOMAIN jobs
  /\ jobs[j].pc = "exit"
  /\ IF ok
       THEN /\ jobs' = [jobs EXCEPT ![j].pc = "done",
                                    ![j].summary = Len(jobs[j].createdWallets)]
            /\ sent' = <<Note(jobs[j].chatId, "summary",
                              Len(jobs[j].createdWallets))>>
       ELSE /\ jobs' = [jobs EXCEPT ![j].pc = "done"]
            /\ sent' = <<>>
  /\ pendingRequests' = pendingRequests \ {jobs[j].chatId}
  /\ UNCHANGED <<today, ledgerVars, configVars, blockedUsers, adminState,
                 userState, walletFiles>>

\* The notice sent before a break has returned (ok), and the summary follows;
\* or its send threw, and the catch of processUserRequest ends the run.
JobExit(j, ok) ==
  /\ j \in DOMAIN jobs
  /\ jobs[j].pc = "exit"
  /\ IF ok
       THEN /\ jobs' = [jobs EXCEPT ![j].pc = "done",
                                    ![j].summary = Len(jobs[j].createdWallets)]
            /\ sent' = <<Note(jobs[j].chatId, "summary",
                              Len(jobs[j].createdWallets))>>
       ELSE /\ jobs' = [jobs EXCEPT ![j].pc = "done"]
            /\ sent' = <<>>
  /\ UNCHANGED <<today, ledgerVars, configVars, adminVars, userState,
                 walletFiles>>

\* The unit is pushed (line 293) but the archive that exists cannot be read or
\* parsed: existing stays [] and the handler awaits the error notice of line
\* 301, with the wallet still to be written.
PersistUnreadable(j, wallet) ==
  /\ walletFiles[jobs[j].chatId] # <<>>
  /\ jobs' = [jobs EXCEPT ![j].createdWallets = Append(@, wallet),
                          ![j].wallet = wallet,
                          ![j].turn = 0,
                          ![j].topic = <<>>,
                          ![j].pc = "read_error"]
  /\ sent' = <<Note(jobs[j].chatId, "read_error", 0)>>
  /\ UNCHANGED walletFiles

\* registerWallet returns false and the read of the archive fails.
JobRegisterUnreadable(j, outcome) ==
  /\ j \in DOMAIN jobs
  /\ jobs[j].pc = "register"
  /\ ~Registered(outcome)
  /\ PersistUnreadable(j, registerWallet(jobs[j].wallet, outcome))
  /\ UNCHANGED <<today, ledgerVars, configVars, adminVars, userState>>

\* The last conversation request of the unit returns and the read of the
\* archive fails.
JobChatUnreadable(j, ok) ==
  /\ j \in DOMAIN jobs
  /\ jobs[j].pc = "chat"
  /\ ~(ok /\ jobs[j].turn + 1 < MaxChats)
  /\ PersistUnreadable(j, [jobs[j].wallet EXCEPT
                             !.chats = IF ok THEN @ + 1 ELSE @])
  /\ UNCHANGED <<today, ledgerVars, configVars, adminVars, userState>>

\* The error notice of line 301 has returned (ok): existing.push(wallet) on
\* the empty list and writeFileSync replace the archive, and the progress
\* notification is sent; or its send threw, and the catch of
\* processUserRequest ends the run with nothing written.
JobArchiveAfterError(j, ok) ==
  /\ j \in DOMAIN jobs
  /\ jobs[j].pc = "read_error"
  /\ IF ok
       THEN /\ jobs' = [jobs EXCEPT ![j].wallet = NoWallet,
                                    ![j].pc = "notify"]
            /\ walletFiles' = [walletFiles EXCEPT
                                 ![jobs[j].chatId] = <<jobs[j].wallet>>]
            /\ sent' = <<Note(jobs[j].chatId, "progress", jobs[j].i + 1)>>
       ELSE /\ jobs' = [jobs EXCEPT ![j].wallet = NoWallet, ![j].pc = "done"]
            /\ sent' = <<>>
            /\ UNCHANGED walletFiles
  /\ UNCHANGED <<today, ledgerVars, configVars, adminVars, userState>>

\* The calendar day changes.
Midnight ==
  /\ today < MaxDay
  /\ today' = today + 1
  /\ sent' = <<>>
  /\ UNCHANGED <<ledgerVars, configVars, adminVars, userState, jobVars>>

\* ------------------------------------------------------------ specifications

CountTexts == {T_0, T_1, T_2, T_2x, T_abc}
RefTexts == {T_ref, T_refsp, T_abc}
TopicTexts == {T_t1t2, T_commas}
LimitTexts == {T_0, T_1, T_2, T_abc}

\* A grant within the bound on the identities requested in one run.
WithinUnits(n) == stats'.totalWalletRequests <= n

\* The quota ledger under sessions, jobs and the admin's change of the
\* ceiling.  One requesting actor; every registration fails at its first call
\* (a failed unit is produced and charged like any other).
User == CHOOSE a \in Actors : a # ADMIN_ID

SessionStep ==
  \/ MsgStart(User, T_start)
  \/ \E text \in CountTexts : MsgCount(User, text)
  \/ \E text \in RefTexts : MsgRef(User, text)
  \/ \E text \in TopicTexts : MsgTopics(User, text) /\ WithinUnits(MaxUnits)

FailedUnitStep ==
  \/ \E j \in 1..MaxUnits : JobCheckpoint(j)
  \/ \E j \in 1..MaxUnits : JobRegister(j, "lookup_error")
  \/ \E j \in 1..MaxUnits : JobCharge(j)

LimitStep ==
  \/ CallbackStage(ADMIN_ID, "change_max_limit")
  \/ \E text \in LimitTexts : AdminChangeMaxLimit(ADMIN_ID, text)

Next == SessionStep \/ FailedUnitStep \/ LimitStep \/ Midnight

Spec == Init /\ [][Next]_vars

\* The same without the admin: the ceiling stays what it was at start.
NextFixedLimit == SessionStep \/ FailedUnitStep \/ Midnight

SpecFixedLimit == Init /\ [][NextFixedLimit]_vars

\* The jobs of one actor with every outcome of the registration and of each
\* conversation turn, and the admin's cancel, within one calendar day.  The
\* ceiling is the one the program boots with, and the session is given valid
\* input.
LaunchStep ==
  \/ MsgStart(User, T_start)
  \/ \E text \in {T_1, T_2} : MsgCount(User, text)
  \/ MsgRef(User, T_refsp)
  \/ MsgTopics(User, T_t1t2) /\ WithinUnits(MaxUnits)

UnitStep ==
  \/ \E j \in 1..MaxUnits : JobCheckpoint(j)
  \/ \E j \in 1..MaxUnits, outcome \in RegOutcomes : JobRegister(j, outcome)
  \/ \E j \in 1..MaxUnits, ok \in BOOLEAN : JobChat(j, ok)
  \/ \E j \in 1..MaxUnits : JobCharge(j)
  \/ \E j \in 1..MaxUnits, ok \in BOOLEAN : JobExit(j, ok)

CancelTexts == {T_2, T_abc}

CancelStep ==
  \/ CallbackStage(ADMIN_ID, "cancel_request")
  \/ \E text \in CancelTexts : AdminCancel(ADMIN_ID, text)

NextJob == LaunchStep \/ UnitStep \/ CancelStep

\* The state after construction when no saved configuration is found.
InitJob == Init /\ maxLimit = DEFAULT_MAX_LIMIT

SpecJob == InitJob /\ [][NextJob]_vars

\* The sessions of both actors: every stage with valid and invalid input, the
\* messages of an actor without a session and of a blocked one, the admin's
\* menu, block and ceiling stages.  Jobs are launched and left at their first
\* delay.
AdminLimitTexts == {T_1, T_abc}
BlockTexts == {T_2, T_abc}
StrayTexts == {T_1, T_abc}

StageStep ==
  \/ \E a \in Actors : MsgStart(a, T_start)
  \/ \E a \in Actors, text \in CountTexts : MsgCount(a, text)
  \/ \E a \in Actors, text \in RefTexts : MsgRef(a, text)
  \/ \E a \in Actors, text \in TopicTexts :
       MsgTopics(a, text) /\ WithinUnits(MaxUnits)
  \/ \E a \in Actors, text \in StrayTexts : MsgIgnored(a, text)
  \/ \E a \in Actors, text \in StrayTexts : MsgBlocked(a, text)

PanelStep ==
  \/ MsgAdminMenu(ADMIN_ID, T_admin)
  \/ \E action \in {"block_user", "change_max_limit"} :
       CallbackStage(ADMIN_ID, action)
  \/ \E text \in BlockTexts : AdminBlock(ADMIN_ID, text)
  \/ \E text \in AdminLimitTexts : AdminChangeMaxLimit(ADMIN_ID, text)

NextSession == StageStep \/ PanelStep

SpecSession == InitJob /\ [][NextSession]_vars

\* The jobs of one actor that starts a session only when none of its jobs is
\* running, with every answer of the remote calls; nobody cancels.
NoJobRunning == \A j \in DOMAIN jobs : jobs[j].pc = "done"

PatientLaunchStep ==
  \/ MsgStart(User, T_start) /\ NoJobRunning
  \/ \E text \in {T_1, T_2} : MsgCount(User, text)
  \/ MsgRef(User, T_refsp)
  \/ MsgTopics(User, T_t1t2) /\ WithinUnits(MaxUnits)

AnsweredUnitStep ==
  \/ \E j \in 1..MaxUnits : JobCheckpoint(j)
  \/ \E j \in 1..MaxUnits, h \in Handshakes : JobRegister(j, Outcome(h))
  \/ \E j \in 1..MaxUnits, ok \in BOOLEAN : JobChat(j, ok)
  \/ \E j \in 1..MaxUnits : JobCharge(j)

NextUnit == PatientLaunchStep \/ AnsweredUnitStep

SpecUnit == InitJob /\ [][NextUnit]_vars

\* The admin panel with every button and every stage, the buttons pressed by
\* the other actor too, the messages of blocked actors (the admin can block
\* itself), and the session of the other actor up to the launch.
TargetTexts == {T_1, T_2, T_abc}
StrangerButtons == {"block_user", "change_max_limit", "remove_suffix"}
BlockedTexts == {T_start, T_admin, T_1, T_ref, T_t1}

ButtonStep ==
  \/ MsgAdminMenu(ADMIN_ID, T_admin)
  \/ \E a \in Actors, action \in StrangerButtons :
       CallbackUnauthorized(a, action)
  \/ \E action \in Buttons : CallbackStage(ADMIN_ID, action)
  \/ \E action \in Buttons : CallbackOther(ADMIN_ID, action)

AdminStageStep ==
  \/ \E text \in TargetTexts : AdminBlock(ADMIN_ID, text)
  \/ \E text \in CancelTexts : AdminUnblock(ADMIN_ID, text)
  \/ \E text \in CancelTexts : AdminCancel(ADMIN_ID, text)
  \/ \E text \in ConfigTexts : AdminChangeWelcome(ADMIN_ID, text)
  \/ \E text \in ConfigTexts : AdminSetSuffix(ADMIN_ID, text)
  \/ \E text \in AdminLimitTexts : AdminChangeMaxLimit(ADMIN_ID, text)
  \/ \E text \in ConfigTexts : AdminSetGlobalCaption(ADMIN_ID, text)
  \/ \E text \in ConfigTexts : AdminBroadcast(ADMIN_ID, text)

ShortSessionStep ==
  \/ MsgStart(User, T_start)
  \/ MsgCount(User, T_2)
  \/ MsgRef(User, T_ref)
  \/ MsgTopics(User, T_t1) /\ WithinUnits(MaxUnits)
  \/ \E a \in Actors : MsgIgnored(a, T_abc)
  \/ \E a \in Actors, text \in BlockedTexts : MsgBlocked(a, text)

NextPanel == ButtonStep \/ AdminStageStep \/ ShortSessionStep

SpecPanel == InitJob /\ [][NextPanel]_vars

\* ---- Jobs under cancellation, with every awaited call returning ----
\* One actor launches its jobs one after the other; the administrator may set a
\* cancel flag at any moment. Every continuation of a job is run by the event
\* loop once the timer or the external call it awaits returns.
JobStep(j) ==
  \/ JobCheckpoint(j)
  \/ \E outcome \in RegOutcomes : JobRegister(j, outcome)
  \/ \E ok \in BOOLEAN : JobChat(j, ok)
  \/ JobCharge(j)
  \/ \E ok \in BOOLEAN : JobExit(j, ok)

NextCancel ==
  \/ PatientLaunchStep
  \/ \E j \in 1..MaxUnits : JobStep(j)
  \/ CancelStep

CallsReturn == \A j \in 1..MaxUnits : WF_vars(JobStep(j))

SpecCancel == InitJob /\ [][NextCancel]_vars /\ CallsReturn

\* ---- processUserRequest called with any referral code ----
\* The session stages launch jobs, and the function is also applied to
\* arguments that no session has validated.
DirectRefs == {<<>>, T_abc, T_ref, T_refsp}

DirectRequest ==
  /\ \E count \in 1..2, referralCode \in DirectRefs :
       StartRequest(User, count, referralCode, <<T_t1>>)
  /\ WithinUnits(MaxUnits)
  /\ UNCHANGED <<today, usersList, configVars, adminVars, userState,
                 walletFiles>>

ExitStep == \E j \in 1..MaxUnits, ok \in BOOLEAN : JobExit(j, ok)

NextRequest ==
  SessionStep \/ DirectRequest \/ FailedUnitStep \/ ExitStep \/ CancelStep

SpecRequest == InitJob /\ [][NextRequest]_vars

\* ---- Jobs of different actors, interleaved ----
\* Every actor runs its own session and its own job; the steps of the jobs
\* interleave at their awaits, and the administrator may set a cancel flag.
EachLaunchStep ==
  \/ \E a \in Actors : MsgStart(a, T_start)
  \/ \E a \in Actors : MsgCount(a, T_1)
  \/ \E a \in Actors : MsgRef(a, T_ref)
  \/ \E a \in Actors : MsgTopics(a, T_t1) /\ WithinUnits(MaxUnits)

EachUnitStep ==
  \/ \E j \in 1..MaxUnits : JobCheckpoint(j)
  \/ \E j \in 1..MaxUnits : JobRegister(j, "not_200")
  \/ \E j \in 1..MaxUnits : JobCharge(j)
  \/ \E j \in 1..MaxUnits : JobExit(j, TRUE)

EachCancelStep ==
  \/ CallbackStage(ADMIN_ID, "cancel_request")
  \/ \E text \in {T_1, T_2} : AdminCancel(ADMIN_ID, text)

NextActors == EachLaunchStep \/ EachUnitStep \/ EachCancelStep

SpecActors == InitJob /\ [][NextActors]_vars

\* ---- Jobs of an actor that is blocked while they run ----
\* The actor launches its jobs one after the other; the administrator may
\* block it or set its cancel flag at any moment, and the actor keeps
\* writing while blocked.
BlockStep ==
  \/ CallbackStage(ADMIN_ID, "block_user")
  \/ AdminBlock(ADMIN_ID, T_2)
  \/ \E text \in {T_start, T_1} : MsgBlocked(User, text)

NextBlock ==
  \/ PatientLaunchStep
  \/ \E j \in 1..MaxUnits : JobStep(j)
  \/ CancelStep
  \/ BlockStep

SpecBlock == InitJob /\ [][NextBlock]_vars /\ CallsReturn

\* ---- Concurrent jobs of one actor and an archive that may be unreadable ----
\* The actor may launch a job while another one runs; each read of an
\* existing archive file succeeds or throws.
ArchiveUnitStep ==
  \/ \E j \in 1..MaxUnits : JobCheckpoint(j)
  \/ \E j \in 1..MaxUnits, outcome \in {"not_200", "ok"} :
       JobRegister(j, outcome)
  \/ \E j \in 1..MaxUnits, ok \in BOOLEAN : JobChat(j, ok)
  \/ \E j \in 1..MaxUnits : JobCharge(j)
  \/ \E j \in 1..MaxUnits : JobRegisterUnreadable(j, "not_200")
  \/ \E j \in 1..MaxUnits, ok \in BOOLEAN : JobChatUnreadable(j, ok)
  \/ \E j \in 1..MaxUnits, ok \in BOOLEAN : JobArchiveAfterError(j, ok)

NextArchive == LaunchStep \/ ArchiveUnitStep

SpecArchive == InitJob /\ [][NextArchive]_vars

\* ------------------------------------------------------------------ claims

\* The job is inside the loop of processUserRequest.
InLoop(job) == job.pc \in {"delay", "register", "chat", "notify", "exit"}

\* The step takes a non-empty topic list from actor a: processUserRequest is
\* called and the session record deleted.
Requests(a) ==
  userState[a].stage = "awaiting_topics" /\ userState'[a].stage = "none"

\* ... and the request enters the loop.
Granted(a) ==
  /\ Requests(a)
  /\ Len(jobs') = Len(jobs) + 1
  /\ jobs'[Len(jobs')].chatId = a
  /\ InLoop(jobs'[Len(jobs')])

\* ... and the request is turned down.
Denied(a) == Requests(a) /\ jobs' = jobs

\* What the actor has used on the current calendar day.
SameDayCount(a) == IF usageData[a].date = today THEN usageData[a].count ELSE 0

\* C1: in every reachable state each actor's quota count is at most the
\* configured ceiling maxLimit.
C1_CountWithinCeiling == \A a \in Actors : usageData[a].count <= maxLimit

\* C2: at most one job per actor is inside its loop at any time.
C2_OneJobPerActor ==
  \A j1, j2 \in DOMAIN jobs :
    (j1 # j2 /\ jobs[j1].chatId = jobs[j2].chatId)
      => ~(InLoop(jobs[j1]) /\ InLoop(jobs[j2]))

\* C3: a request of A identities by an actor whose same-day count is P is
\* granted if and only if P + A <= maxLimit, and is denied otherwise.
C3_GrantIffWithinCeiling ==
  [][\A a \in Actors :
       Requests(a) =>
         /\ Granted(a) <=> SameDayCount(a) + userState[a].count <= maxLimit
         /\ Denied(a) <=> ~(SameDayCount(a) + userState[a].count <= maxLimit)]_vars

\* C3 witness: a request has just been denied to an actor who had used part of
\* the ceiling on that day (its earlier request was granted).
C3_Witness ==
  /\ Len(sent) = 2
  /\ sent[2].kind = "limit_reached"
  /\ sent[2].n > 0
  /\ \E j \in DOMAIN jobs : jobs[j].chatId = sent[2].to

\* C4 (as claimed, for an actor that has a quota record): a denied request
\* creates and archives no identity and leaves the record's date and count
\* and the lifetime counters as they were.
C4_DenialChangesNothing ==
  [][\A a \in Actors :
       Denied(a) =>
         /\ walletFiles' = walletFiles
         /\ stats' = stats
         /\ usageData[a].date # 0 => usageData'[a] = usageData[a]]_vars

\* C4 (amended): a denied request creates and archives no identity and leaves
\* the lifetime counters as they were; the quota record is as it was when it
\* was stored for the current day, and otherwise (no record, or one of an
\* earlier day) it has been replaced by { date: today, count: 0 }.
C4_DenialKeepsSameDayRecord ==
  [][\A a \in Actors :
       Denied(a) =>
         /\ walletFiles' = walletFiles
         /\ stats' = stats
         /\ \A b \in Actors \ {a} : usageData'[b] = usageData[b]
         /\ usageData'[a] =
              IF usageData[a].date = today
                THEN usageData[a]
                ELSE [date |-> today, count |-> 0]]_vars

\* C4 witness: a request has just been denied to an actor whose only job ran
\* to its end and was charged, and whose record is { today, 0 }: the record of
\* the earlier day has been replaced.
C4_Witness ==
  /\ Len(sent) = 2
  /\ sent[2].kind = "limit_reached"
  /\ Len(jobs) = 1
  /\ jobs[1].chatId = sent[2].to
  /\ jobs[1].pc = "done"
  /\ Len(jobs[1].createdWallets) > 0
  /\ usageData[sent[2].to] = [date |-> today, count |-> 0]

\* C5: a quota record is never incremented while its stored date differs from
\* the current calendar day (it is reset to 0 for the new day first).
C5_ChargedOnStoredDay ==
  [][\A a \in Actors :
       usageData'[a].count > usageData[a].count => usageData'[a].date = today']_vars

\* The identities of job j in the archive of its actor, in the order written.
Archived(j) ==
  SelectSeq(walletFiles[jobs[j].chatId], LAMBDA w : w.id[1] = j)

\* A unit of the job is in progress: its identity exists and is not yet charged.
InUnit(job) == job.pc \in {"register", "chat", "notify"}

RECURSIVE Charged(_, _)
\* The units charged so far by the first n jobs to actor a.
Charged(a, n) ==
  IF n = 0 THEN 0
  ELSE Charged(a, n - 1) + (IF jobs[n].chatId = a THEN jobs[n].i ELSE 0)

Message(a, text) ==
  \/ MsgBlocked(a, text)
  \/ MsgAdminMenu(a, text)
  \/ AdminBlock(a, text)
  \/ AdminUnblock(a, text)
  \/ AdminCancel(a, text)
  \/ AdminChangeWelcome(a, text)
  \/ AdminSetSuffix(a, text)
  \/ AdminChangeMaxLimit(a, text)
  \/ AdminSetGlobalCaption(a, text)
  \/ AdminBroadcast(a, text)
  \/ MsgStart(a, text)
  \/ MsgIgnored(a, text)
  \/ MsgCount(a, text)
  \/ MsgRef(a, text)
  \/ MsgTopics(a, text)

\* The handler from line 490 on: the step a message that is input to a stage
\* makes.
StageMessage(a, text) ==
  MsgCount(a, text) \/ MsgRef(a, text) \/ MsgTopics(a, text)

\* The message is input to the stage of the actor's session: it is not
\* rejected for a block, not taken by the admin panel, and not /start.
StageInput(a, text) == ReachesSession(a, text) /\ text # T_start

\* What the handler's conversions make of each text.
IntOf == [text \in Texts |-> parseInt(text)]
TrimmedOf == [text \in Texts |-> trim(text)]
TopicsOf == [text \in Texts |-> ParseTopics(text)]

\* The input is valid for the stage the session of actor a is in: an integer
\* in 1..maxLimit, a code of six characters, a list with at least one topic.
ValidInput(a, text) ==
  CASE userState[a].stage = "awaiting_count" ->
         /\ ~IntOf[text].nan
         /\ IntOf[text].val >= 1
         /\ IntOf[text].val <= maxLimit
    [] userState[a].stage = "awaiting_ref" -> Len(TrimmedOf[text]) = 6
    [] userState[a].stage = "awaiting_topics" -> TopicsOf[text] # <<>>
    [] OTHER -> FALSE

\* The stage that follows each stage of a session.
NextStage(stage) ==
  CASE stage = "awaiting_count" -> "awaiting_ref"
    [] stage = "awaiting_ref" -> "awaiting_topics"
    [] stage = "awaiting_topics" -> "none"
    [] OTHER -> stage

\* Everything but the messages sent.
shared ==
  <<today, blockedUsers, usageData, stats, usersList, welcomeMessage, suffix,
    globalCaption, maxLimit, pendingRequests, adminState, jobs, walletFiles>>

\* The step launches a job for actor a.
Launches(a) == Len(jobs') = Len(jobs) + 1 /\ jobs'[Len(jobs')].chatId = a

\* C8: a job is launched for an actor only from awaiting_topics, which a
\* session reaches only through awaiting_count (an integer of 1..maxLimit is
\* stored) and then awaiting_ref (a code of six characters is stored); each
\* valid input to a stage moves the session exactly one stage on, and the job
\* gets the stored count and code and the topics of the input.
C8_StagesInOrder ==
  /\ [](\A a \in Actors :
          /\ userState[a].stage \in {"awaiting_ref", "awaiting_topics"}
               => userState[a].count >= 1
          /\ userState[a].stage = "awaiting_topics"
               => Len(userState[a].referralCode) = 6)
  /\ [][\A a \in Actors :
          /\ userState'[a].stage # userState[a].stage =>
               \/ userState'[a] = [NoSession EXCEPT !.stage = "awaiting_count"]
               \/ /\ userState[a].stage = "awaiting_count"
                  /\ userState'[a].stage = "awaiting_ref"
                  /\ userState'[a].count \in 1..maxLimit
               \/ /\ userState[a].stage = "awaiting_ref"
                  /\ userState'[a].stage = "awaiting_topics"
                  /\ userState'[a].count = userState[a].count
                  /\ Len(userState'[a].referralCode) = 6
               \/ /\ userState[a].stage = "awaiting_topics"
                  /\ userState'[a] = NoSession
          /\ Launches(a) =>
               /\ userState[a].stage = "awaiting_topics"
               /\ jobs'[Len(jobs')].count = userState[a].count
               /\ jobs'[Len(jobs')].referralCode = userState[a].referralCode
               /\ jobs'[Len(jobs')].topics # <<>>
               /\ \E text \in Texts :
                    /\ Message(a, text)
                    /\ jobs'[Len(jobs')].topics = ParseTopics(text)
          /\ (userState[a].stage # "none" /\ ~IsBlocked(a) /\ ~InAdminStage(a))
               => \A text \in Texts :
                    (StageInput(a, text) /\ ValidInput(a, text)
                       /\ StageMessage(a, text))
                      => userState'[a].stage = NextStage(userState[a].stage)]_vars

\* C8 witness: a job of two units has just been launched with the code and
\* the two topics its actor sent, and the actor's session is over.
C8_Witness ==
  /\ Len(jobs) > 0
  /\ Len(sent) = 1
  /\ sent[1].kind = "starting"
  /\ jobs[Len(jobs)].chatId = sent[1].to
  /\ jobs[Len(jobs)].count = 2
  /\ jobs[Len(jobs)].referralCode = T_ref
  /\ Len(jobs[Len(jobs)].topics) = 2
  /\ userState[sent[1].to].stage = "none"

\* C9: an invalid input to a stage leaves the session record of the actor and
\* all shared state as they were, and the actor is told to send the input of
\* that stage again.
C9_InvalidInputKeepsState ==
  [][\A a \in Actors :
       (userState[a].stage # "none" /\ ~IsBlocked(a) /\ ~InAdminStage(a))
         => \A text \in Texts :
              (StageInput(a, text) /\ ~ValidInput(a, text)
                 /\ StageMessage(a, text))
                => /\ userState' = userState
                   /\ shared' = shared
                   /\ Len(sent') = 1
                   /\ sent'[1].to = a
                   /\ sent'[1].kind =
                        CASE userState[a].stage = "awaiting_count" -> "invalid_count"
                          [] userState[a].stage = "awaiting_ref" -> "invalid_ref"
                          [] OTHER -> "invalid_topics"]_vars

\* C9 witness: with the ceiling lowered to 1 by the admin, an actor in
\* awaiting_count has just been told that its count is not valid.
C9_Witness ==
  /\ maxLimit = 1
  /\ Len(sent) = 1
  /\ sent[1].kind = "invalid_count"
  /\ userState[sent[1].to].stage = "awaiting_count"
  /\ \E a \in Actors : userState[a].stage = "awaiting_topics"

\* C10 (as claimed): a valid topics input discards the session record in the
\* step that launches the job, and a message other than /start from an actor
\* with no session record changes no state and starts no job.
C10_NoSessionNoEffect ==
  [][\A a \in Actors :
       /\ Launches(a) => userState'[a] = NoSession
       /\ \A text \in Texts :
            (userState[a].stage = "none" /\ text # T_start /\ Message(a, text))
              => userState' = userState /\ shared' = shared]_vars

\* C10 (amended): a valid topics input discards the session record in the
\* step that launches the job, and a message other than /start from an actor
\* with no session record, unless it is the admin's /admin or the input of an
\* open admin stage, changes no state and starts no job.
C10_NoSessionNoEffectOutsidePanel ==
  [][\A a \in Actors :
       /\ Launches(a) => userState'[a] = NoSession
       /\ \A text \in Texts :
            (userState[a].stage = "none" /\ text # T_start
               /\ ~IsAdminCommand(a, text) /\ ~InAdminStage(a)
               /\ Message(a, text))
              => userState' = userState /\ shared' = shared]_vars

\* C10 witness: after a launch no actor has a session record, and a message
\* has just been dropped without an answer.
C10_Witness ==
  /\ sent = <<>>
  /\ Len(jobs) > 0
  /\ \A a \in Actors : userState[a].stage = "none"

\* The identity of the unit a job has last worked on: the one in its
\* conversation, or the one it has just persisted.
UnitWallet(job) ==
  IF job.pc = "chat" THEN job.wallet
  ELSE job.createdWallets[Len(job.createdWallets)]

\* The lookup returned, the connect response carried a token, the bind
\* returned and the second lookup carried code 200.
AllFourSucceeded(h) ==
  /\ h.lookup = "returns"
  /\ h.connect = "token"
  /\ h.bind = "returns"
  /\ h.requery = "code_200"

\* C11: when registerWallet returns, the identity has registered = true if and
\* only if all four calls of the handshake succeeded; on any failure the
\* function returns false to the job, which goes on to persist the identity
\* with registered = false; and no stored identity is registered without a
\* token.
C11_RegisteredIffHandshake ==
  /\ [](\A j \in DOMAIN jobs : \A k \in DOMAIN jobs[j].createdWallets :
          jobs[j].createdWallets[k].registered => jobs[j].createdWallets[k].jwt)
  /\ [][\A j \in DOMAIN jobs :
          jobs[j].pc = "register" =>
            \A h \in Handshakes :
              JobRegister(j, Outcome(h)) =>
                /\ UnitWallet(jobs'[j]).registered <=> AllFourSucceeded(h)
                /\ UnitWallet(jobs'[j]).id = jobs[j].wallet.id
                /\ jobs'[j].pc = IF AllFourSucceeded(h) THEN "chat" ELSE "notify"]_vars

\* C11 witness: a job has stored an identity that got a token and is not
\* registered, and then a registered one.
C11_Witness ==
  \E j \in DOMAIN jobs :
    /\ Len(jobs[j].createdWallets) = 2
    /\ jobs[j].createdWallets[1].jwt
    /\ ~jobs[j].createdWallets[1].registered
    /\ jobs[j].createdWallets[2].registered

C13_ChatsCountLeadingSuccesses ==
  /\ [](\A j \in DOMAIN jobs :
          /\ \A k \in DOMAIN jobs[j].createdWallets :
               jobs[j].createdWallets[k].chats \in 0..5
          /\ jobs[j].wallet.chats \in 0..5
          /\ jobs[j].pc = "chat" =>
               jobs[j].wallet.chats = jobs[j].turn /\ jobs[j].turn < 5)
  /\ [][\A j \in DOMAIN jobs :
          /\ \A k \in DOMAIN jobs[j].createdWallets :
               jobs'[j].createdWallets[k] = jobs[j].createdWallets[k]
          /\ jobs[j].pc = "chat" =>
               /\ JobChat(j, FALSE) =>
                    /\ jobs'[j].pc = "notify"
                    /\ UnitWallet(jobs'[j]).id = jobs[j].wallet.id
                    /\ UnitWallet(jobs'[j]).chats = jobs[j].turn
               /\ JobChat(j, TRUE) =>
                    /\ UnitWallet(jobs'[j]).id = jobs[j].wallet.id
                    /\ UnitWallet(jobs'[j]).chats = jobs[j].wallet.chats + 1
                    /\ jobs'[j].pc =
                         IF jobs[j].turn + 1 < 5 THEN "chat" ELSE "notify"]_vars

\* C13 witness: a job has stored an identity with all five turns made and one
\* whose conversation broke off after some successful turns.
C13_Witness ==
  \E j \in DOMAIN jobs :
    /\ Len(jobs[j].createdWallets) = 2
    /\ jobs[j].createdWallets[1].chats = 5
    /\ jobs[j].createdWallets[2].chats \in 1..4

\* The distinct topics of an identity.
TopicSet(wallet) == {wallet.topics[k] : k \in DOMAIN wallet.topics}

\* The step of job j is a further call of getRandomTopic for the identity in
\* its conversation.
CallsAgain(j) ==
  /\ jobs[j].pc = "chat"
  /\ jobs'[j].pc = "chat"
  /\ jobs'[j].turn = jobs[j].turn + 1

C15_BlockedMessageNoEffect ==
  [][\A a \in Actors :
       IsBlocked(a) =>
         \A text \in Texts :
           Message(a, text) =>
             /\ userState' = userState
             /\ shared' = shared
             /\ sent' = <<Note(a, "blocked", 0)>>]_vars

\* C15 witness: an actor that was blocked with its session at the topics
\* stage has just been answered with the blocked notice; its session is where
\* it was and no job exists.
C15_Witness ==
  /\ sent = <<Note(User, "blocked", 0)>>
  /\ User \in blockedUsers
  /\ userState[User].stage = "awaiting_topics"
  /\ jobs = <<>>

\* The callback handler: the step a press of this button by actor a makes.
Callback(a, action) ==
  \/ CallbackUnauthorized(a, action)
  \/ CallbackStage(a, action)
  \/ CallbackOther(a, action)

\* The block set, the cancel flags and the admin stage; the welcome text, the
\* suffix, the caption and the ceiling.
PrivilegedChanged == adminVars' # adminVars \/ configVars' # configVars

\* C16: the block set, the cancel flags, the configuration scalars and the
\* admin stage change only in a step that handles a message or a button press
\* of ADMIN_ID; no message and no button press of another actor changes them.
C16_OnlyAdminChangesPanelState ==
  [][PrivilegedChanged =>
       /\ \/ \E action \in Buttons : Callback(ADMIN_ID, action)
          \/ \E text \in Texts : Message(ADMIN_ID, text)
       /\ \A a \in Actors \ {ADMIN_ID} :
            /\ \A text \in Texts : ~Message(a, text)
            /\ \A action \in Buttons : ~Callback(a, action)]_vars

\* C16 witness: the admin has blocked an actor, set a cancel flag, lowered the
\* ceiling and changed the welcome text, and the other actor has just pressed
\* a button and been refused.
C16_Witness ==
  /\ sent = <<Note(User, "not_authorized", 0)>>
  /\ blockedUsers # {}
  /\ pendingRequests # {}
  /\ maxLimit = 1
  /\ welcomeMessage = T_abc

\* The job j is in flight and the cancel flag of its actor is set.
CancelPending(j) ==
  /\ j \in DOMAIN jobs
  /\ InLoop(jobs[j])
  /\ CancelRequested(jobs[j].chatId)

\* The job j has emitted the cancellation notification of line 280.
CancelNotified(j) == j \in DOMAIN jobs /\ jobs[j].reason = "cancelled"

\* A checkpoint of the job j is still to come: it waits at one, or the unit
\* in progress is not its last.
CheckpointAhead(j) ==
  jobs[j].pc \in {"delay", "exit"} \/ jobs[j].i + 1 < jobs[j].count

\* A step of the job j creates an identity.
CreatesIdentity(j) ==
  /\ j \in DOMAIN jobs
  /\ jobs'[j].wallet.id # jobs[j].wallet.id
  /\ jobs'[j].wallet # NoWallet

\* C17 as stated: once the cancel flag of an actor is set while its job is in
\* flight, the job creates no further identity, and it eventually emits the
\* cancellation notification.
C17_CancelStopsAndNotifies ==
  /\ [][\A j \in 1..MaxUnits : CancelPending(j) => ~CreatesIdentity(j)]_vars
  /\ \A j \in 1..MaxUnits : CancelPending(j) ~> CancelNotified(j)

\* C17 amended: once the cancel flag of an actor is set while its job is in
\* flight, the job creates no further identity; it eventually emits the
\* cancellation notification when one of its checkpoints is still to come, and
\* it completes with the ordinary summary when the flag is set during its last
\* unit.
C17_CancelNotifiedAtNextCheckpoint ==
  /\ [][\A j \in 1..MaxUnits : CancelPending(j) => ~CreatesIdentity(j)]_vars
  /\ \A j \in 1..MaxUnits :
       /\ (CancelPending(j) /\ CheckpointAhead(j)) ~> CancelNotified(j)
       /\ (CancelPending(j) /\ ~CheckpointAhead(j)) ~>
            (j \in DOMAIN jobs /\ jobs[j].pc = "done"
                               /\ jobs[j].reason = "complete")

\* A job was cancelled after its first unit: the flag was set while it ran.
C17_Witness ==
  \E j \in DOMAIN jobs :
    /\ jobs[j].reason = "cancelled"
    /\ jobs[j].pc = "done"
    /\ jobs[j].i >= 1
    /\ jobs[j].i < jobs[j].count

AwaitingCharge(a) ==
  {j \in DOMAIN jobs : jobs[j].chatId = a /\ jobs[j].pc = "notify"}

C20_BadReferralRejected ==
  /\ [](\A j \in DOMAIN jobs :
          ~ValidRef(jobs[j].referralCode) =>
            /\ jobs[j].createdWallets = <<>>
            /\ jobs[j].wallet = NoWallet
            /\ Archived(j) = <<>>
            /\ jobs[j].i = 0
            /\ jobs[j].pc \in {"delay", "exit", "done"}
            /\ jobs[j].reason \in {"none", "bad_referral", "cancelled"}
            /\ jobs[j].summary \in {-1, 0})
  /\ [](\A j \in DOMAIN jobs :
          ValidRef(jobs[j].referralCode) => jobs[j].reason # "bad_referral")
  /\ [](\A a \in Actors :
          userState[a].stage = "awaiting_topics" =>
            ValidRef(userState[a].referralCode))
  /\ [][\A j \in DOMAIN jobs :
          (~ValidRef(jobs[j].referralCode) /\ jobs'[j] # jobs[j]) =>
            /\ usageData' = usageData
            /\ walletFiles' = walletFiles
            /\ jobs[j].pc = "delay" =>
                 /\ jobs'[j].pc = "exit"
                 /\ jobs'[j].reason =
                      (IF CancelRequested(jobs[j].chatId)
                         THEN "cancelled" ELSE "bad_referral")
                 /\ sent' = <<Note(jobs[j].chatId,
                                   IF CancelRequested(jobs[j].chatId)
                                     THEN "job_cancelled" ELSE "bad_referral",
                                   0)>>]_vars
  /\ [][\A a \in Actors :
          (Launches(a) /\ \E text \in Texts : Message(a, text)) =>
            ValidRef(jobs'[Len(jobs')].referralCode)]_vars

\* C20 witness: a job with a 3-character code was rejected and has ended with
\* nothing produced, and a job launched by the session stages, with the
\* trimmed 6-character code, has produced an identity.
C20_Witness ==
  /\ \E j \in DOMAIN jobs :
       /\ jobs[j].referralCode = T_abc
       /\ jobs[j].reason = "bad_referral"
       /\ jobs[j].pc = "done"
       /\ jobs[j].summary = 0
       /\ Archived(j) = <<>>
  /\ \E j \in DOMAIN jobs :
       /\ Len(jobs[j].topics) = 2
       /\ jobs[j].referralCode = T_ref
       /\ Len(jobs[j].createdWallets) >= 1

\* The actors that handleStart has served.
Seen == {usersList[k] : k \in DOMAIN usersList}

\* C21: the lifetime counters never decrease and are never reset. totalUsers
\* is the number of distinct actors whose /start was served: it grows by
\* exactly 1 in the step that serves the first /start of an actor, and in no
\* other step; totalWalletRequests grows by the requested count in the step
\* that grants a job, and in no other step.
C21_LifetimeCounters ==
  /\ [](/\ stats.totalUsers = Len(usersList)
        /\ stats.totalUsers = Cardinality(Seen))
  /\ [][/\ stats'.totalUsers >= stats.totalUsers
        /\ stats'.totalWalletRequests >= stats.totalWalletRequests
        /\ \A a \in Actors :
             MsgStart(a, T_start) =>
               /\ stats'.totalUsers =
                    stats.totalUsers + (IF a \in Seen THEN 0 ELSE 1)
               /\ Seen' = Seen \cup {a}
        /\ stats'.totalUsers # stats.totalUsers =>
             \E a \in Actors \ Seen :
               /\ MsgStart(a, T_start)
               /\ stats'.totalUsers = stats.totalUsers + 1
        /\ \A a \in Actors :
             Granted(a) =>
               stats'.totalWalletRequests =
                 stats.totalWalletRequests + jobs'[Len(jobs')].count
        /\ stats'.totalWalletRequests # stats.totalWalletRequests =>
             \E a \in Actors : Granted(a)]_vars

\* C21 witness: every actor was counted once, and an actor whose job was
\* granted has sent /start again.
C21_Witness ==
  /\ stats.totalUsers = Cardinality(Actors)
  /\ \E j \in DOMAIN jobs :
       /\ userState[jobs[j].chatId].stage = "awaiting_count"
       /\ stats.totalWalletRequests >= jobs[j].count

\* The step is one of a session of actor a.
SessionStepOf(a) ==
  \/ MsgStart(a, T_start)
  \/ \E text \in Texts : StageMessage(a, text)

\* The step is one of a job of actor a.
JobStepOf(a) == \E j \in DOMAIN jobs : jobs[j].chatId = a /\ JobStep(j)

\* The step leaves what belongs to actor b as it is.
Untouched(b) ==
  /\ usageData'[b] = usageData[b]
  /\ walletFiles'[b] = walletFiles[b]
  /\ userState'[b] = userState[b]
  /\ (b \in pendingRequests') = (b \in pendingRequests)

\* C22: every step of a job or of a session of an actor A leaves the quota
\* record, the archive, the session record and the cancel flag of every other
\* actor B unchanged, however the jobs of the actors interleave: a step that
\* touches what belongs to B is not a step of a job or session of A.
C22_OtherActorsUntouched ==
  [][\A a \in Actors :
       \/ \A b \in Actors \ {a} : Untouched(b)
       \/ ~(JobStepOf(a) \/ SessionStepOf(a))]_vars

\* C22 witness: the jobs of two actors are in flight together, one has
\* archived a unit that awaits its charge, the other is cancelled, and the
\* first actor has opened a new session.
C22_Witness ==
  \E j, m \in DOMAIN jobs :
    /\ jobs[j].chatId # jobs[m].chatId
    /\ jobs[j].pc = "notify"
    /\ Len(walletFiles[jobs[j].chatId]) = 1
    /\ jobs[m].pc = "exit"
    /\ jobs[m].chatId \in pendingRequests
    /\ userState[jobs[j].chatId].stage = "awaiting_count"

\* The job j has left its loop and has sent the summary of what it produced.
Summarized(j) ==
  /\ j \in DOMAIN jobs
  /\ jobs[j].pc = "done"
  /\ jobs[j].summary = Len(jobs[j].createdWallets)

\* C23: every granted job eventually leaves its loop and sends its summary,
\* once, with the number of identities it produced, when every timer and
\* external call returns, with success or with failure; it runs at most
\* requestedCount iterations and at most 5 conversation turns per unit.
C23_JobEndsWithSummary ==
  /\ \A j \in 1..MaxUnits : (j \in DOMAIN jobs) ~> Summarized(j)
  /\ [](\A j \in DOMAIN jobs :
          /\ jobs[j].i <= jobs[j].count
          /\ Len(jobs[j].createdWallets) <= jobs[j].count
          /\ jobs[j].turn < MaxChats
          /\ jobs[j].wallet.chats <= MaxChats)
  /\ [][\A j \in DOMAIN jobs :
          /\ jobs[j].summary # -1 => jobs'[j].summary = jobs[j].summary
          /\ jobs'[j].summary # jobs[j].summary =>
               /\ jobs'[j].pc = "done"
               /\ sent' = <<Note(jobs[j].chatId, "summary",
                                 Len(jobs'[j].createdWallets))>>]_vars

\* The job j waits at the checkpoint of its first unit.
Unstarted(j) == jobs[j].pc = "delay" /\ jobs[j].i = 0

\* C24: the cancel flag of an actor, once set, is never cleared. A job of that
\* actor that is at a checkpoint while the flag is set stops there; outside a
\* unit in progress it never adds an identity, and one started with the flag
\* set ends with none. The cancel stage sets the flag of the id it is given
\* whatever the jobs are, also when that actor has none in flight.
C24_CancelFlagSticks ==
  /\ [][pendingRequests \subseteq pendingRequests']_vars
  /\ [][\A j \in 1..MaxUnits :
          (CancelPending(j) /\ ~InUnit(jobs[j])) =>
            /\ jobs'[j].createdWallets = jobs[j].createdWallets
            /\ jobs'[j].i = jobs[j].i
            /\ ~CreatesIdentity(j)
            /\ (jobs[j].pc = "delay" /\ jobs'[j] # jobs[j]) =>
                 /\ jobs'[j].pc = "exit"
                 /\ jobs'[j].reason = "cancelled"]_vars
  /\ [][\A a \in pendingRequests :
          Launches(a) =>
            /\ a \in pendingRequests'
            /\ jobs'[Len(jobs')].pc = "delay"
            /\ jobs'[Len(jobs')].i = 0]_vars
  /\ \A j \in 1..MaxUnits :
       []((CancelPending(j) /\ Unstarted(j)) =>
            [](/\ j \in DOMAIN jobs
               /\ jobs[j].createdWallets = <<>>
               /\ Archived(j) = <<>>))
  /\ [](AdminInput(ADMIN_ID, T_2, "cancel") =>
          ENABLED (AdminCancel(ADMIN_ID, T_2) /\ User \in pendingRequests'))

\* C24 witness: the flag that cancelled the first job of the actor has stopped
\* the job of its next session at the first checkpoint, with nothing produced.
C24_Witness ==
  /\ Len(jobs) = 2
  /\ jobs[1].chatId = jobs[2].chatId
  /\ jobs[1].reason = "cancelled"
  /\ jobs[1].pc = "done"
  /\ jobs[2].reason = "cancelled"
  /\ jobs[2].pc = "done"
  /\ jobs[2].i = 0
  /\ jobs[2].createdWallets = <<>>

\* The step completes an operation of the admin panel on the text of actor a.
AdminOperation(a, text) ==
  \/ AdminBlock(a, text)
  \/ AdminUnblock(a, text)
  \/ AdminCancel(a, text)
  \/ AdminChangeWelcome(a, text)
  \/ AdminSetSuffix(a, text)
  \/ AdminChangeMaxLimit(a, text)
  \/ AdminSetGlobalCaption(a, text)
  \/ AdminBroadcast(a, text)

BlockedInFlight(j) ==
  /\ j \in DOMAIN jobs
  /\ InLoop(jobs[j])
  /\ IsBlocked(jobs[j].chatId)

ArchiveOf(a) == {walletFiles[a][k] : k \in DOMAIN walletFiles[a]}

\* C27: the archive of an actor loses no append. It holds every identity that
\* every job of the actor has produced, however the jobs interleave, two jobs
\* of one actor included; and the step that pushes an identity is the step
\* that appends it to the archive, which keeps what it held.
C27_ArchiveLosesNoAppend ==
  /\ [](\A j \in DOMAIN jobs :
          \A k \in DOMAIN jobs[j].createdWallets :
            jobs[j].createdWallets[k] \in ArchiveOf(jobs[j].chatId))
  /\ [][\A j \in DOMAIN jobs :
          jobs'[j].createdWallets # jobs[j].createdWallets =>
            walletFiles'[jobs[j].chatId] =
              Append(walletFiles[jobs[j].chatId],
                     jobs'[j].createdWallets[Len(jobs'[j].createdWallets)])]_vars

====
